---- MODULE Spec2Model ----
(***************************************************************************)
(* Model of the flowly-app client store (src/store.ts): the zustand state, *)
(* its asynchronous actions, the auth-state listener and the remote        *)
(* service the actions talk to.                                             *)
(*                                                                         *)
(* Conventions.  A JavaScript value that may be null or undefined is        *)
(* wrapped: Null, Undefined or Some(v).  Money, weight and the summaries  *)
(* are JavaScript numbers, binary64 values, added and divided with the     *)
(* rounding of IEEE 754 (section JavaScript numbers).  One step of the     *)
(* model is one synchronous run of JavaScript: from the start of a         *)
(* handler, or the arrival of a response, to the next await of a remote    *)
(* call.                                                                    *)
(***************************************************************************)
EXTENDS Integers, Sequences, FiniteSets, Bags, TLC

VARIABLES
    store,      \* the zustand state object (AppState data fields)
    tasks,      \* bag of store actions suspended at an await
    db,         \* remote tables: [accounts, transactions, nextId]
    auth,       \* the session the auth service holds
    ev,         \* observation of the last step: what ran, what it requested, what it returned
    calls       \* handler invocations since the module was loaded

vars == <<store, tasks, db, auth, ev, calls>>

----------------------------------------------------------------------------
(* Bounds *)

MaxTasks == 2          \* store actions in flight at once
MaxCalls == 1          \* handler invocations after the module's own checkSession
MaxInserts == 1        \* rows the store may insert into a run's remote table
MaxCalcAccounts == 3   \* length of the account collections fed to recalculateSummaries
MaxCalcTxs == 3        \* length of the transaction collections fed to recalculateSummaries

----------------------------------------------------------------------------
(* JavaScript values *)

Null == [k |-> "null"]
Undefined == [k |-> "undefined"]
Some(v) == [k |-> "val", v |-> v]

SeqsUpTo(S, n) == UNION {[1..k -> S] : k \in 0..n}

----------------------------------------------------------------------------
(* JavaScript numbers.  A number is an IEEE 754 binary64 value:            *)
(*   [int |-> n]             an integer of magnitude below 2^SmallBits     *)
(*   [neg |-> b, mant |-> m, exp |-> e]                                    *)
(*                           any other finite value, (-1)^b * m * 2^e with *)
(*                           m an odd natural                              *)
(*   [inf |-> 1], [inf |-> -1]   Infinity and -Infinity                    *)
(*   [nan |-> TRUE]          NaN                                           *)
(* Every value has one representation, so = on numbers is ===, except that *)
(* NaN equals itself and -0 is not told from 0: a quotient by -0 has the   *)
(* sign of the quotient by 0 (the store divides by positive numbers only). *)
(* A natural is the sequence of its digits in base 2^LimbBits, the least   *)
(* significant first, without leading zero.  + and / are the exact result  *)
(* rounded to the nearest value, ties to the even mantissa.                *)

Precision == 53         \* significant bits of a binary64 value
MinExponent == -1074    \* the smallest subnormal is 2^MinExponent
MaxBits == 1024         \* magnitudes of 2^MaxBits and more overflow to Infinity
SmallBits == 30         \* integers below 2^SmallBits are kept as integers
LimbBits == 24          \* bits of one digit of a natural

N(n) == [int |-> n]
NaN == [nan |-> TRUE]
Infinity(sign) == [inf |-> sign]

IsInt(x) == "int" \in DOMAIN x
IsNaN(x) == "nan" \in DOMAIN x
IsInfinite(x) == "inf" \in DOMAIN x

Max(a, b) == IF a < b THEN b ELSE a
Min(a, b) == IF a < b THEN a ELSE b
Abs(x) == IF x < 0 THEN -x ELSE x

Base == 2^LimbBits

RECURSIVE LimbsOf(_)
LimbsOf(n) == IF n = 0 THEN <<>> ELSE <<n % Base>> \o LimbsOf(n \div Base)

RECURSIVE IntOf(_)
IntOf(a) == IF a = <<>> THEN 0 ELSE Head(a) + Base * IntOf(Tail(a))

RECURSIVE Trim(_)
Trim(a) ==
    IF a # <<>> /\ a[Len(a)] = 0 THEN Trim(SubSeq(a, 1, Len(a) - 1)) ELSE a

\* a + b + carry
RECURSIVE AddLimbs(_, _, _)
AddLimbs(a, b, carry) ==
    IF a = <<>> /\ b = <<>>
    THEN IF carry = 0 THEN <<>> ELSE <<carry>>
    ELSE LET a1 == IF a = <<>> THEN <<0>> ELSE a
             b1 == IF b = <<>> THEN <<0>> ELSE b
             s == Head(a1) + Head(b1) + carry
         IN <<s % Base>> \o AddLimbs(Tail(a1), Tail(b1), s \div Base)

\* a - b - borrow, for a >= b + borrow
RECURSIVE SubLimbs(_, _, _)
SubLimbs(a, b, borrow) ==
    IF a = <<>> THEN <<>>
    ELSE LET b1 == IF b = <<>> THEN <<0>> ELSE b
             d == Head(a) - Head(b1) - borrow
         IN <<(d + Base) % Base>> \o SubLimbs(Tail(a), Tail(b1), IF d < 0 THEN 1 ELSE 0)

\* a < b
RECURSIVE LessLimbs(_, _)
LessLimbs(a, b) ==
    IF Len(a) # Len(b) THEN Len(a) < Len(b)
    ELSE IF a = <<>> THEN FALSE
    ELSE IF a[Len(a)] # b[Len(b)] THEN a[Len(a)] < b[Len(b)]
    ELSE LessLimbs(SubSeq(a, 1, Len(a) - 1), SubSeq(b, 1, Len(b) - 1))

\* the number of bits of n
RECURSIVE Width(_)
Width(n) == IF n = 0 THEN 0 ELSE 1 + Width(n \div 2)

\* the number of zero bits below the lowest one bit of n > 0
RECURSIVE TrailingZeros(_)
TrailingZeros(n) == IF n % 2 = 1 THEN 0 ELSE 1 + TrailingZeros(n \div 2)

BitLength(a) == IF a = <<>> THEN 0 ELSE LimbBits * (Len(a) - 1) + Width(a[Len(a)])

\* bit j of a, bit 1 the least significant one
Bit(a, j) ==
    LET i == (j - 1) \div LimbBits + 1
    IN IF i > Len(a) THEN 0 ELSE (a[i] \div 2^((j - 1) % LimbBits)) % 2

RECURSIVE LowZeros(_)
LowZeros(a) ==
    IF Head(a) = 0 THEN LimbBits + LowZeros(Tail(a)) ELSE TrailingZeros(Head(a))

\* a * 2^k
ShiftLeft(a, k) ==
    LET s == k % LimbBits
        digit(i) == IF i \in 1..Len(a) THEN a[i] ELSE 0
        shifted == [i \in 1..(Len(a) + 1) |->
                      (digit(i) % 2^(LimbBits - s)) * 2^s + digit(i - 1) \div 2^(LimbBits - s)]
    IN IF a = <<>> THEN a ELSE [i \in 1..(k \div LimbBits) |-> 0] \o Trim(shifted)

\* a \div 2^k
ShiftRight(a, k) ==
    LET s == k % LimbBits
        high == SubSeq(a, k \div LimbBits + 1, Len(a))
        digit(i) == IF i \in 1..Len(high) THEN high[i] ELSE 0
    IN Trim([i \in 1..Len(high) |->
               digit(i) \div 2^s + (digit(i + 1) % 2^s) * 2^(LimbBits - s)])

\* long division by b of the number whose bits hi, ..., lo are those of a and
\* whose higher bits, already divided, left the remainder r and the quotient q;
\* a zero remainder before zero bits ends the division at once
RECURSIVE DivBits(_, _, _, _, _, _)
DivBits(a, hi, lo, b, r, q) ==
    IF hi < lo THEN [q |-> q, r |-> r]
    ELSE IF hi = lo
    THEN LET r1 == AddLimbs(r, r, Bit(a, hi))
         IN IF LessLimbs(r1, b)
            THEN [q |-> AddLimbs(q, q, 0), r |-> r1]
            ELSE [q |-> AddLimbs(q, q, 1), r |-> Trim(SubLimbs(r1, b, 0))]
    ELSE LET mid == (hi + lo) \div 2
             upper == DivBits(a, hi, mid + 1, b, r, q)
         IN IF upper.r = <<>> /\ \A j \in lo..mid : Bit(a, j) = 0
            THEN [q |-> ShiftLeft(upper.q, mid - lo + 1), r |-> <<>>]
            ELSE DivBits(a, mid, lo, b, upper.r, upper.q)

\* short division of a by the integer b, 0 < b < 2^(SmallBits - LimbBits)
RECURSIVE ShortDiv(_, _)
ShortDiv(a, b) ==
    IF a = <<>> THEN [q |-> <<>>, r |-> 0]
    ELSE LET upper == ShortDiv(Tail(a), b)
             cur == upper.r * Base + Head(a)
         IN [q |-> <<cur \div b>> \o upper.q, r |-> cur % b]

\* the quotient and the remainder of a by b > 0
DivLimbs(a, b) ==
    IF Len(b) = 1 /\ b[1] < 2^(SmallBits - LimbBits)
    THEN LET d == ShortDiv(a, b[1])
         IN [q |-> Trim(d.q), r |-> IF d.r = 0 THEN <<>> ELSE <<d.r>>]
    ELSE LET rest == BitLength(a) - BitLength(b) + 1
         IN IF rest < 1 THEN [q |-> <<>>, r |-> a]
            ELSE DivBits(a, rest, 1, b, ShiftRight(a, rest), <<>>)

\* the real number (-1)^neg * mant * 2^exp, mant any natural
Real(neg, mant, exp) == [neg |-> neg, mant |-> mant, exp |-> exp]

\* the real number a finite value denotes
RealOf(x) == IF IsInt(x) THEN Real(x.int < 0, LimbsOf(Abs(x.int)), 0) ELSE x

\* a nonzero real lies in [2^(TopOf(r) - 1), 2^TopOf(r)) in magnitude
TopOf(r) == r.exp + BitLength(r.mant)

\* the sum of two reals, exactly
RealPlus(a, b) ==
    LET e == Min(a.exp, b.exp)
        A == ShiftLeft(a.mant, a.exp - e)
        B == ShiftLeft(b.mant, b.exp - e)
    IN IF a.neg = b.neg THEN Real(a.neg, AddLimbs(A, B, 0), e)
       ELSE IF LessLimbs(A, B) THEN Real(b.neg, Trim(SubLimbs(B, A, 0)), e)
       ELSE Real(a.neg, Trim(SubLimbs(A, B, 0)), e)

\* the one representation of a real
Canonical(r) ==
    IF r.mant = <<>> THEN N(0)
    ELSE LET z == LowZeros(r.mant)
             m == ShiftRight(r.mant, z)
             e == r.exp + z
         IN IF e >= 0 /\ BitLength(m) + e <= SmallBits
            THEN N((IF r.neg THEN -1 ELSE 1) * IntOf(ShiftLeft(m, e)))
            ELSE Real(r.neg, m, e)

\* the binary64 value nearest to a real, ties to the even mantissa
Round(r) ==
    LET L == BitLength(r.mant)
        d == Max(L - Precision, MinExponent - r.exp)
        kept == ShiftRight(r.mant, d)
        half == d <= L /\ Bit(r.mant, d) = 1
        sticky == \E j \in 1..Min(d - 1, L) : Bit(r.mant, j) = 1
        odd == Bit(kept, 1) = 1
        m == IF half /\ (sticky \/ odd) THEN AddLimbs(kept, <<1>>, 0) ELSE kept
        rounded == IF d <= 0 THEN r ELSE Real(r.neg, m, r.exp + d)
    IN IF TopOf(rounded) > MaxBits
       THEN Infinity(IF r.neg THEN -1 ELSE 1)
       ELSE Canonical(rounded)

SignOf(x) ==
    CASE IsNaN(x) -> 0
      [] IsInfinite(x) -> x.inf
      [] IsInt(x) -> IF x.int > 0 THEN 1 ELSE IF x.int < 0 THEN -1 ELSE 0
      [] OTHER -> IF x.neg THEN -1 ELSE 1

\* -x
Negate(x) ==
    CASE IsNaN(x) -> x
      [] IsInfinite(x) -> Infinity(-x.inf)
      [] IsInt(x) -> N(-x.int)
      [] OTHER -> [x EXCEPT !.neg = ~x.neg]

\* Math.abs(x)
MathAbs(x) == IF SignOf(x) < 0 THEN Negate(x) ELSE x

\* x > 0
Positive(x) == SignOf(x) > 0

\* x + y
Plus(x, y) ==
    CASE IsInt(x) /\ IsInt(y) /\ Abs(x.int + y.int) < 2^SmallBits -> N(x.int + y.int)
      [] IsNaN(x) \/ IsNaN(y) -> NaN
      [] IsInfinite(x) /\ IsInfinite(y) -> IF x.inf = y.inf THEN x ELSE NaN
      [] IsInfinite(x) -> x
      [] IsInfinite(y) -> y
      [] OTHER ->
            LET a == RealOf(x)
                b == RealOf(y)
            IN IF a.mant = <<>> THEN y
               ELSE IF b.mant = <<>> THEN x
               ELSE IF TopOf(b) + Precision + 2 <= TopOf(a) THEN x
               ELSE IF TopOf(a) + Precision + 2 <= TopOf(b) THEN y
               ELSE Round(RealPlus(a, b))

\* x / y.  Of finite operands other than zero it is the value nearest to the
\* quotient: the mantissas are divided to Precision + 2 bits and more, and one
\* more bit tells whether a remainder was left
Divide(x, y) ==
    CASE IsInt(x) /\ IsInt(y) /\ y.int # 0 /\ Abs(x.int) % Abs(y.int) = 0 ->
            N(SignOf(x) * SignOf(y) * (Abs(x.int) \div Abs(y.int)))
      [] IsNaN(x) \/ IsNaN(y) -> NaN
      [] IsInfinite(x) -> IF IsInfinite(y) THEN NaN
                          ELSE Infinity(IF SignOf(y) < 0 THEN -x.inf ELSE x.inf)
      [] IsInfinite(y) -> N(0)
      [] SignOf(y) = 0 -> IF SignOf(x) = 0 THEN NaN ELSE Infinity(SignOf(x))
      [] SignOf(x) = 0 -> N(0)
      [] OTHER ->
            LET a == RealOf(x)
                b == RealOf(y)
                k == Max(0, Precision + 2 + BitLength(b.mant) - BitLength(a.mant))
                d == DivLimbs(ShiftLeft(a.mant, k), b.mant)
                inexact == IF d.r = <<>> THEN 0 ELSE 1
            IN Round(Real(a.neg # b.neg, AddLimbs(d.q, d.q, inexact),
                          a.exp - b.exp - k - 1))

\* the decimal literal with the digits of the integer n, the last k of them
\* after the point (0 <= k <= 9), as JSON.parse and parseFloat read it: the
\* binary64 value nearest to n / 10^k
Decimal(n, k) == Divide(N(n), N(10^k))

\* Array.prototype.reduce((sum, x) => sum + term(x), acc): a left fold over
\* the terms of the elements, in array order.  Array.prototype.filter is
\* SelectSeq and Array.prototype.map a function over the positions.
RECURSIVE Reduce(_, _)
Reduce(terms, acc) ==
    IF terms = <<>> THEN acc ELSE Reduce(Tail(terms), Plus(acc, Head(terms)))

----------------------------------------------------------------------------
(* Timestamps: the ISO-8601 strings the model uses and the instant         *)
(* (milliseconds since the epoch) each one denotes.  Two spellings of the  *)
(* same instant are included: parsing is not injective.                    *)

IsoInstant ==
    "1970-01-01T00:00:01.000Z" :> 1000 @@
    "1970-01-01T00:00:01+00:00" :> 1000 @@
    "1970-01-01T00:00:02.000Z" :> 2000 @@
    "1970-01-01T00:00:03.000Z" :> 3000

\* new Date(s).getTime()
DateParse(s) == IsoInstant[s]

\* new Date(ms).toISOString(): the canonical spelling, with milliseconds and Z
ToISOString(ms) ==
    CASE ms = 1000 -> "1970-01-01T00:00:01.000Z"
      [] ms = 2000 -> "1970-01-01T00:00:02.000Z"
      [] ms = 3000 -> "1970-01-01T00:00:03.000Z"

----------------------------------------------------------------------------
(* Data mapper *)

\* x || undefined, for a nullable string
StrOrUndefined(x) == IF x = Null \/ x = Undefined \/ x = Some("") THEN Undefined ELSE x

\* x || undefined, for a nullable number
NumOrUndefined(x) == IF x = Null \/ x = Undefined \/ x = Some(0) THEN Undefined ELSE x

mapAccount(account) ==
    [account EXCEPT !.created_at = DateParse(account.created_at)]

mapTransaction(transaction) ==
    [id |-> transaction.id,
     timestamp |-> DateParse(transaction.timestamp),
     type |-> transaction.type,
     amount |-> transaction.amount,
     weightChange |-> transaction.weight_change,
     notes |-> StrOrUndefined(transaction.notes),
     account_id |-> transaction.account_id,
     category |-> StrOrUndefined(transaction.category),
     user_id |-> transaction.user_id,
     created_at |-> DateParse(transaction.created_at),
     related_transaction_id |-> NumOrUndefined(transaction.related_transaction_id)]

----------------------------------------------------------------------------
(* Summary recalculation *)

Balance(acc) == acc.current_balance
WeightChange(tx) == tx.weightChange
Amount(tx) == tx.amount
AbsWeightChange(tx) == MathAbs(tx.weightChange)
IsSale(tx) == tx.type = "Sale"

OverallNetCash(accounts) ==
    Reduce([i \in DOMAIN accounts |-> Balance(accounts[i])], N(0))

WeightOnHand(transactions) ==
    Reduce([i \in DOMAIN transactions |-> WeightChange(transactions[i])], N(0))

DollarPerGramRatio(transactions) ==
    LET sales == SelectSeq(transactions, IsSale)
        totalSalesAmount == Reduce([i \in DOMAIN sales |-> Amount(sales[i])], N(0))
        totalSalesWeight == Reduce([i \in DOMAIN sales |-> AbsWeightChange(sales[i])], N(0))
    IN IF Positive(totalSalesWeight)
       THEN Some(Divide(totalSalesAmount, totalSalesWeight))
       ELSE Null

\* the state after get().recalculateSummaries()
recalculateSummaries(S) ==
    [S EXCEPT !.overallNetCash = OverallNetCash(S.accounts),
              !.weightOnHand = WeightOnHand(S.transactions),
              !.dollarPerGramRatio = DollarPerGramRatio(S.transactions)]

----------------------------------------------------------------------------
(* The store as constructed *)

InitialState ==
    [session |-> Null,
     user |-> Null,
     isSessionLoading |-> TRUE,
     accounts |-> <<>>,
     transactions |-> <<>>,
     isLoading |-> FALSE,
     overallNetCash |-> N(0),
     weightOnHand |-> N(0),
     dollarPerGramRatio |-> Null]

----------------------------------------------------------------------------
(* Identities *)

Users == {"u1", "u2"}
User(u) == [id |-> u]
Session(u) == [user |-> User(u)]
Sessions == {Session(u) : u \in Users}

\* session?.user ?? null
UserOf(session) == IF session = Null THEN Null ELSE session.user

----------------------------------------------------------------------------
(* The remote service.  It is outside the repository: the model keeps the  *)
(* two tables with the columns of Database.public.Tables, answers a select *)
(* with the rows of the requested user in the requested order, and lets    *)
(* every call either succeed or fail.  A column the request does not name  *)
(* keeps its value (update) or takes its default (insert); a key of the    *)
(* request that is no column is not stored.                                *)

AccountRow(id, uid, name, type, balance, created) ==
    [id |-> id, user_id |-> uid, name |-> name, type |-> type,
     current_balance |-> balance, created_at |-> created]

TransactionRow(id, uid, acc, type, amount, weight, notes, category, ts, related) ==
    [id |-> id, user_id |-> uid, account_id |-> acc, type |-> type,
     amount |-> amount, weight_change |-> weight, notes |-> notes,
     category |-> category, timestamp |-> ts, created_at |-> ts,
     related_transaction_id |-> related]

InitialAccounts ==
    << AccountRow("a2", "u1", "Cash", "Cash", N(-25), "1970-01-01T00:00:02.000Z"),
       AccountRow("a1", "u1", "Bank", "Bank", N(100), "1970-01-01T00:00:01.000Z"),
       AccountRow("a3", "u2", "Bank", "Bank", N(7), "1970-01-01T00:00:01+00:00") >>

InitialTransactions ==
    << TransactionRow(1, "u1", "a1", "Purchase", N(-20), N(10), Null, Null,
                      "1970-01-01T00:00:01+00:00", Null),
       TransactionRow(2, "u1", "a1", "Sale", N(50), N(-5), Some("memo"), Some("Retail"),
                      "1970-01-01T00:00:02.000Z", Some(1)),
       TransactionRow(3, "u2", "a3", "Sale", N(30), N(-3), Some(""), Some("Personal"),
                      "1970-01-01T00:00:01.000Z", Some(0)) >>

InitialDb ==
    [accounts |-> InitialAccounts,
     transactions |-> InitialTransactions,
     nextId |-> Len(InitialTransactions) + 1]

\* the position of an account name in the collation order
NameRank(name) ==
    CASE name = "Bank" -> 1
      [] name = "Cash" -> 2

\* rows in ascending order of their keys (keys[i] is the key of rows[i]), ties
\* in table order
RECURSIVE SortBy(_, _)
SortBy(keys, rows) ==
    IF rows = <<>> THEN <<>>
    ELSE LET least == CHOOSE i \in 1..Len(rows) :
                          /\ \A j \in 1..Len(rows) : keys[i] <= keys[j]
                          /\ \A j \in 1..(i - 1) : keys[j] > keys[i]
             without(s) == [j \in 1..(Len(s) - 1) |-> IF j < least THEN s[j] ELSE s[j + 1]]
         IN <<rows[least]>> \o SortBy(without(keys), without(rows))

SelectRowsUnordered(D, table, uid) ==
    LET mine(r) == r.user_id = uid
    IN SelectSeq(D[table], mine)

\* .from(table).select("*").eq("user_id", uid).order(...)
SelectRows(D, table, uid) ==
    LET mine(r) == r.user_id = uid
        rows == SelectSeq(D[table], mine)
        byName == [i \in DOMAIN rows |-> NameRank(rows[i].name)]
        byTimestampDesc == [i \in DOMAIN rows |-> -DateParse(rows[i].timestamp)]
    IN IF table = "accounts"
       THEN SortBy(byName, rows)
       ELSE SortBy(byTimestampDesc, rows)

\* the columns whose request field may be undefined (optional in Transaction)
OptionalColumns == {"notes", "category", "related_transaction_id"}

\* the value a column takes from a request: the field of that name, unless the
\* request has none (an undefined field is not serialised)
ColumnOr(fields, key, default) ==
    IF key \notin DOMAIN fields THEN default
    ELSE IF key \in OptionalColumns /\ fields[key] = Undefined THEN default
    ELSE fields[key]

\* .from("transactions").insert(fields)
InsertRow(D, fields, serverNow) ==
    LET row == [id |-> D.nextId,
                user_id |-> fields.user_id,
                account_id |-> fields.account_id,
                type |-> fields.type,
                amount |-> fields.amount,
                weight_change |-> ColumnOr(fields, "weight_change", N(0)),
                notes |-> ColumnOr(fields, "notes", Null),
                category |-> ColumnOr(fields, "category", Null),
                timestamp |-> fields.timestamp,
                created_at |-> ToISOString(serverNow),
                related_transaction_id |-> ColumnOr(fields, "related_transaction_id", Null)]
    IN [D EXCEPT !.transactions = Append(@, row), !.nextId = @ + 1]

\* .from("transactions").update(changes).eq("id", id)
UpdateRow(D, id, changes) ==
    LET patched(r) ==
            IF r.id # id THEN r
            ELSE [c \in DOMAIN r |-> ColumnOr(changes, c, r[c])]
    IN [D EXCEPT !.transactions = [i \in DOMAIN @ |-> patched(@[i])]]

\* .from("transactions").delete().eq("id", id)
DeleteRow(D, id) ==
    LET kept(r) == r.id # id
    IN [D EXCEPT !.transactions = SelectSeq(@, kept)]

----------------------------------------------------------------------------
(* Requests and the places where an action waits for one *)

GetSessionReq == [call |-> "getSession"]
SignOutReq == [call |-> "signOut"]
SelectReq(table, uid) == [call |-> "select", table |-> table, uid |-> uid]
InsertReq(fields) == [call |-> "insert", fields |-> fields]
UpdateReq(id, changes) == [call |-> "update", id |-> id, changes |-> changes]
DeleteReq(id) == [call |-> "delete", id |-> id]

Idle == [st |-> "idle"]                          \* no call made
Sent(req) == [st |-> "sent", req |-> req]        \* request on its way
Ok(req, data) == [st |-> "ok", req |-> req, data |-> data]
Err(req) == [st |-> "err", req |-> req]
Settled(ok) == [st |-> "settled", ok |-> ok]     \* a fetch that has returned

Pending(w) == w.st \in {"sent", "ok"}

\* a store action suspended at an await: its own remote call, and the two
\* fetches it awaits jointly
Task(op, call, fa, ft) == [op |-> op, call |-> call, fa |-> fa, ft |-> ft]

Running == BagToSet(tasks)
Put(t) == tasks (+) SetToBag({t})
Swap(t, t2) == (tasks (-) SetToBag({t})) (+) SetToBag({t2})
Drop(t) == tasks (-) SetToBag({t})
Quiescent == tasks = EmptyBag

\* what a step shows of itself: the action it belongs to, the part of it that
\* ran ("call", or the call whose answer resumed it), that answer, the
\* requests the step sent, what the action's promise settled to ("pending"
\* while it has not), and the action's own record after the step
Event(op, step, resp, issued, result, task) ==
    [op |-> op, step |-> step, resp |-> resp, issued |-> issued,
     result |-> result, task |-> task]

NoTask == Task("none", Idle, Idle, Idle)
NoEvent == Event("none", "none", Idle, {}, "pending", NoTask)

----------------------------------------------------------------------------
(* Inputs of the store actions *)

\* the instants a clock may show when it is read
Instants == {3000}

\* what the transaction form hands to addTransaction (TransactionInsert)
TransactionInputs ==
    { [type |-> "Sale", amount |-> N(40), weightChange |-> N(-4), notes |-> Some("memo"),
       account_id |-> "a1", category |-> Some("Retail"),
       related_transaction_id |-> Undefined, timestamp |-> Undefined],
      [type |-> "Purchase", amount |-> N(-10), weightChange |-> N(2), notes |-> Undefined,
       account_id |-> "a1", category |-> Some("Personal"),
       related_transaction_id |-> Undefined,
       timestamp |-> Some("1970-01-01T00:00:01.000Z")],
      [type |-> "Sale", amount |-> N(40), weightChange |-> N(-4), notes |-> Some("memo"),
       account_id |-> "a1", category |-> Some("Retail"),
       related_transaction_id |-> Undefined, timestamp |-> Some("")] }

\* what updateTransaction is handed as changes (TransactionUpdate)
TransactionChanges ==
    { [amount |-> N(60), notes |-> Some("edited")] }

\* the ids updateTransaction and deleteTransaction are handed
TransactionIds == {1, 2}

Mutations == {"addTransaction", "updateTransaction", "deleteTransaction"}

----------------------------------------------------------------------------
(* Fetches, alone and awaited jointly *)

FetchTable(which) == IF which = "fa" THEN "accounts" ELSE "transactions"
FetchName(which) == IF which = "fa" THEN "fetchAccounts" ELSE "fetchTransactions"

BeginFetchLoadingFirst(S, which) ==
    IF S.user = Null
    THEN [S |-> [S EXCEPT !.isLoading = TRUE], wait |-> Idle]
    ELSE [S |-> [S EXCEPT !.isLoading = TRUE],
          wait |-> Sent(SelectReq(FetchTable(which), S.user.id))]

\* fetchAccounts / fetchTransactions up to the await of the select:
\* the state it leaves and the request it waits for (Idle when it returned)
BeginFetch(S, which) ==
    IF S.user = Null
    THEN [S |-> S, wait |-> Idle]
    ELSE [S |-> [S EXCEPT !.isLoading = TRUE],
          wait |-> Sent(SelectReq(FetchTable(which), S.user.id))]

BeginTransactionsOnly(S) ==
    LET t == BeginFetch(S, "ft")
    IN [S |-> t.S, fa |-> Idle, ft |-> t.wait]

\* Promise.all([get().fetchAccounts(), get().fetchTransactions()]) up to its await
BeginBoth(S) ==
    LET a == BeginFetch(S, "fa")
        t == BeginFetch(a.S, "ft")
    IN [S |-> t.S, fa |-> a.wait, ft |-> t.wait]

Issued(waits) == {w.req : w \in {x \in waits : x.st = "sent"}}

FailedFetchKeepingRows(S, which) == S

\* set({ accounts: [] }) / set({ transactions: [] }) in the catch block
FailedFetch(S, which) ==
    IF which = "fa" THEN [S EXCEPT !.accounts = <<>>]
    ELSE [S EXCEPT !.transactions = <<>>]

LoadedFetchMerging(S, which, data) ==
    IF which = "fa"
    THEN recalculateSummaries([S EXCEPT !.accounts = @ \o [i \in DOMAIN data |-> mapAccount(data[i])]])
    ELSE recalculateSummaries([S EXCEPT !.transactions =
                                         @ \o [i \in DOMAIN data |-> mapTransaction(data[i])]])

LoadedFetchKeepingNewer(S, which, data) ==
    IF Len(data) < Len(S[FetchTable(which)])
    THEN recalculateSummaries(S)
    ELSE IF which = "fa"
    THEN recalculateSummaries([S EXCEPT !.accounts = [i \in DOMAIN data |-> mapAccount(data[i])]])
    ELSE recalculateSummaries([S EXCEPT !.transactions =
                                         [i \in DOMAIN data |-> mapTransaction(data[i])]])

\* set({ accounts }); get().recalculateSummaries() / the same for transactions
LoadedFetch(S, which, data) ==
    IF which = "fa"
    THEN recalculateSummaries([S EXCEPT !.accounts = [i \in DOMAIN data |-> mapAccount(data[i])]])
    ELSE recalculateSummaries([S EXCEPT !.transactions =
                                         [i \in DOMAIN data |-> mapTransaction(data[i])]])

EndFetchCountingRequests(S, which, resp) ==
    LET S1 == IF resp.st = "ok" THEN LoadedFetch(S, which, resp.data)
              ELSE FailedFetch(S, which)
    IN [S1 EXCEPT !.isLoading = \E t \in Running : Pending(t.fa) /\ Pending(t.ft)]

\* a fetch from the answer of its select to its return
EndFetch(S, which, resp) ==
    LET S1 == IF resp.st = "ok" THEN LoadedFetch(S, which, resp.data)
              ELSE FailedFetch(S, which)
    IN [S1 EXCEPT !.isLoading = FALSE]

\* Promise.all over the two fetches is fulfilled: neither is still waiting
JointlyDone(t) == ~Pending(t.fa) /\ ~Pending(t.ft)

\* what an action does once the fetches it awaits have returned
AfterFetches(S, op) ==
    CASE op = "checkSession" -> [S EXCEPT !.isSessionLoading = FALSE]
      [] op \in Mutations -> [S EXCEPT !.isLoading = FALSE]
      [] OTHER -> S

ResultFalseOnFailedFetch(t) ==
    IF t.op \notin Mutations THEN "undefined"
    ELSE IF Settled(FALSE) \in {t.fa, t.ft} THEN "false" ELSE "true"

ResultRaisedOnFailedFetch(t) ==
    IF Settled(FALSE) \in {t.fa, t.ft} THEN "raised"
    ELSE IF t.op \in Mutations THEN "true" ELSE "undefined"

\* what its promise settles to then
ResultAfterFetches(t) == IF t.op \in Mutations THEN "true" ELSE "undefined"

\* an action t2 that awaits its fetches goes on when none is waiting, and
\* stays suspended otherwise; others are the actions that stay suspended
Continue(others, t2, S, step, resp, issued) ==
    IF JointlyDone(t2)
    THEN /\ store' = AfterFetches(S, t2.op)
         /\ tasks' = others
         /\ ev' = Event(t2.op, step, resp, issued, ResultAfterFetches(t2), t2)
    ELSE /\ store' = S
         /\ tasks' = others (+) SetToBag({t2})
         /\ ev' = Event(t2.op, step, resp, issued, "pending", t2)

\* an action calls both fetches and awaits them
AwaitBoth(others, op, S, step, resp) ==
    LET b == BeginBoth(S)
    IN Continue(others, Task(op, Idle, b.fa, b.ft), b.S, step, resp,
                Issued({b.fa, b.ft}))

CanStart == BagCardinality(tasks) < MaxTasks

\* one more handler invocation
Called == calls < MaxCalls /\ calls' = calls + 1

\* fetchAccounts / fetchTransactions called on their own, up to the await
FetchCall(which) ==
    LET b == BeginFetch(store, which)
        t == [Task(FetchName(which), Idle, Idle, Idle) EXCEPT ![which] = b.wait]
    IN /\ Pending(b.wait) => CanStart
       /\ Continue(tasks, t, b.S, "call", Idle, Issued({b.wait}))
       /\ Called
       /\ UNCHANGED <<db, auth>>

FetchAccountsCall == FetchCall("fa")
FetchTransactionsCall == FetchCall("ft")

\* the answer a select gets: an error, or the rows the service read (when it
\* has not read them yet, it reads them now)
SelectAnswer(wait, ok) ==
    IF ~ok THEN Err(wait.req)
    ELSE IF wait.st = "ok" THEN wait
    ELSE Ok(wait.req, SelectRows(db, wait.req.table, wait.req.uid))

\* a fetch from the answer of its select on, and then the action that awaits
\* it, when its other fetch is not waiting either
FetchResume(which) ==
    \E t \in Running, ok \in BOOLEAN :
        /\ Pending(t[which])
        /\ LET answer == SelectAnswer(t[which], ok)
           IN Continue(Drop(t), [t EXCEPT ![which] = Settled(ok)],
                       EndFetch(store, which, answer),
                       FetchName(which), answer, {})
        /\ UNCHANGED <<db, auth, calls>>

FetchAccountsResume == FetchResume("fa")
FetchTransactionsResume == FetchResume("ft")

----------------------------------------------------------------------------
(* Auth actions *)

setSessionOnly(S, session) == [S EXCEPT !.session = session]

setSession(S, session) ==
    [S EXCEPT !.session = session, !.user = UserOf(session)]

\* checkSession up to the await of getSession
CheckSessionCall ==
    LET t == Task("checkSession", Sent(GetSessionReq), Idle, Idle)
    IN /\ CanStart
       /\ store' = [store EXCEPT !.isSessionLoading = TRUE]
       /\ tasks' = Put(t)
       /\ ev' = Event(t.op, "call", Idle, {GetSessionReq}, "pending", t)
       /\ Called
       /\ UNCHANGED <<db, auth>>

\* what the auth client answers to a call: it holds the session locally, so
\* the answer is the one of the moment the awaiting action resumes
AuthAnswer(req, ok) == IF ok THEN Ok(req, auth) ELSE Err(req)

CheckSessionResumeLeavingFlag ==
    \E t \in Running, ok \in BOOLEAN :
        /\ t.op = "checkSession"
        /\ t.call.st = "sent"
        /\ LET answer == AuthAnswer(t.call.req, ok)
               t2 == [t EXCEPT !.call = Idle]
           IN IF answer.st = "err"
              THEN /\ store' = [store EXCEPT !.isSessionLoading = FALSE]
                   /\ tasks' = Drop(t)
                   /\ ev' = Event(t.op, "getSession", answer, {}, "undefined", t2)
              ELSE LET S1 == setSession(store, answer.data)
                   IN IF UserOf(answer.data) # Null
                      THEN AwaitBoth(Drop(t), t.op, S1, "getSession", answer)
                      ELSE /\ store' = [S1 EXCEPT !.accounts = <<>>,
                                                  !.transactions = <<>>]
                           /\ tasks' = Drop(t)
                           /\ ev' = Event(t.op, "getSession", answer, {}, "undefined", t2)
        /\ UNCHANGED <<db, auth, calls>>

\* checkSession from the answer of getSession on
CheckSessionResume ==
    \E t \in Running, ok \in BOOLEAN :
        /\ t.op = "checkSession"
        /\ t.call.st = "sent"
        /\ LET answer == AuthAnswer(t.call.req, ok)
               t2 == [t EXCEPT !.call = Idle]
           IN IF answer.st = "err"
              THEN /\ store' = [store EXCEPT !.isSessionLoading = FALSE]
                   /\ tasks' = Drop(t)
                   /\ ev' = Event(t.op, "getSession", answer, {}, "undefined", t2)
              ELSE LET S1 == setSession(store, answer.data)
                   IN IF UserOf(answer.data) # Null
                      THEN AwaitBoth(Drop(t), t.op, S1, "getSession", answer)
                      ELSE /\ store' = [S1 EXCEPT !.accounts = <<>>,
                                                  !.transactions = <<>>,
                                                  !.isSessionLoading = FALSE]
                           /\ tasks' = Drop(t)
                           /\ ev' = Event(t.op, "getSession", answer, {}, "undefined", t2)
        /\ UNCHANGED <<db, auth, calls>>

\* signOut up to the await of auth.signOut
SignOutCall ==
    LET t == Task("signOut", Sent(SignOutReq), Idle, Idle)
    IN /\ CanStart
       /\ tasks' = Put(t)
       /\ ev' = Event(t.op, "call", Idle, {SignOutReq}, "pending", t)
       /\ Called
       /\ UNCHANGED <<store, db, auth>>

SignOutResumeClearingAnyway ==
    \E t \in Running, ok \in BOOLEAN :
        /\ t.op = "signOut"
        /\ t.call.st = "sent"
        /\ LET answer == AuthAnswer(t.call.req, ok)
           IN /\ store' = [store EXCEPT !.session = Null, !.user = Null,
                                        !.accounts = <<>>, !.transactions = <<>>]
              /\ ev' = Event(t.op, "signOut", answer, {}, "undefined",
                             [t EXCEPT !.call = Idle])
        /\ auth' = IF ok THEN Null ELSE auth
        /\ tasks' = Drop(t)
        /\ UNCHANGED <<db, calls>>

\* signOut from the answer of auth.signOut on
SignOutResume ==
    \E t \in Running, ok \in BOOLEAN :
        /\ t.op = "signOut"
        /\ t.call.st = "sent"
        /\ LET answer == AuthAnswer(t.call.req, ok)
           IN /\ store' = IF answer.st = "ok"
                          THEN [store EXCEPT !.session = Null, !.user = Null,
                                             !.accounts = <<>>, !.transactions = <<>>]
                          ELSE store
              /\ ev' = Event(t.op, "signOut", answer, {}, "undefined",
                             [t EXCEPT !.call = Idle])
        /\ auth' = IF ok THEN Null ELSE auth
        /\ tasks' = Drop(t)
        /\ UNCHANGED <<db, calls>>

\* the events the auth client emits, with the session each carries
AuthEmits(event, session) ==
    \/ event = "SIGNED_IN" /\ session \in Sessions
    \/ event = "SIGNED_OUT" /\ session = Null
    \/ event = "TOKEN_REFRESHED" /\ session = auth /\ auth # Null
\* setSession called on its own: synchronous, no remote call
SetSessionCall(session) ==
    /\ store' = setSession(store, session)
    /\ ev' = Event("setSession", "call", Idle, {}, "undefined", NoTask)
    /\ Called
    /\ UNCHANGED <<tasks, db, auth>>

\* recalculateSummaries called on its own: synchronous, no remote call
RecalculateSummariesCall ==
    /\ store' = recalculateSummaries(store)
    /\ ev' = Event("recalculateSummaries", "call", Idle, {}, "undefined", NoTask)
    /\ Called
    /\ UNCHANGED <<tasks, db, auth>>

OnAuthStateChangeAlwaysFetching(event, session) ==
    /\ AuthEmits(event, session)
    /\ auth' = session
    /\ LET S1 == setSession(store, session)
           op == "onAuthStateChange"
       IN CASE event = "SIGNED_OUT" ->
                    /\ store' = recalculateSummaries(S1)
                    /\ ev' = Event(op, event, Idle, {}, "undefined", NoTask)
                    /\ UNCHANGED tasks
            [] OTHER ->
                    /\ CanStart
                    /\ AwaitBoth(tasks, op, S1, event, Idle)
    /\ Called
    /\ UNCHANGED db

\* the listener registered with supabase.auth.onAuthStateChange
OnAuthStateChange(event, session) ==
    /\ AuthEmits(event, session)
    /\ auth' = session
    /\ LET S1 == setSession(store, session)
           op == "onAuthStateChange"
       IN CASE event = "SIGNED_IN" ->
                    /\ CanStart
                    /\ AwaitBoth(tasks, op, S1, event, Idle)
            [] event = "SIGNED_OUT" ->
                    /\ store' = recalculateSummaries(S1)
                    /\ ev' = Event(op, event, Idle, {}, "undefined", NoTask)
                    /\ UNCHANGED tasks
            [] OTHER ->
                    /\ store' = S1
                    /\ ev' = Event(op, event, Idle, {}, "undefined", NoTask)
                    /\ UNCHANGED tasks
    /\ Called
    /\ UNCHANGED db

----------------------------------------------------------------------------
(* Data mutations *)

TimestampAlwaysNow(timestamp, now) == ToISOString(now)

\* transactionData.timestamp || new Date().toISOString()
TimestampOr(timestamp, now) ==
    IF timestamp = Undefined \/ timestamp = Some("") THEN ToISOString(now)
    ELSE timestamp.v

\* { ...transactionData, user_id: user.id, timestamp: ... }
InsertFields(transactionData, user, now) ==
    [type |-> transactionData.type,
     amount |-> transactionData.amount,
     weightChange |-> transactionData.weightChange,
     notes |-> transactionData.notes,
     account_id |-> transactionData.account_id,
     category |-> transactionData.category,
     related_transaction_id |-> transactionData.related_transaction_id,
     user_id |-> user.id,
     timestamp |-> TimestampOr(transactionData.timestamp, now)]

InsertsAsked ==
    (db.nextId - InitialDb.nextId)
    + Cardinality({t \in Running : t.op = "addTransaction" /\ t.call.st = "sent"})

WriteCallRequiringUser(op, req) ==
    IF store.user = Null
    THEN /\ ev' = Event(op, "call", Idle, {}, "false", NoTask)
         /\ UNCHANGED <<store, tasks>>
    ELSE LET t == Task(op, Sent(req), Idle, Idle)
         IN /\ CanStart
            /\ store' = [store EXCEPT !.isLoading = TRUE]
            /\ tasks' = Put(t)
            /\ ev' = Event(op, "call", Idle, {req}, "pending", t)

\* a mutation up to the await of its remote write
WriteCall(op, req) ==
    LET t == Task(op, Sent(req), Idle, Idle)
    IN /\ CanStart
       /\ store' = [store EXCEPT !.isLoading = TRUE]
       /\ tasks' = Put(t)
       /\ ev' = Event(op, "call", Idle, {req}, "pending", t)

AddTransactionCallLoadingFirst(transactionData, now) ==
    /\ IF store.user = Null
       THEN /\ store' = [store EXCEPT !.isLoading = TRUE]
            /\ ev' = Event("addTransaction", "call", Idle, {}, "false", NoTask)
            /\ UNCHANGED tasks
       ELSE /\ InsertsAsked < MaxInserts
            /\ WriteCall("addTransaction",
                         InsertReq(InsertFields(transactionData, store.user, now)))
    /\ Called
    /\ UNCHANGED <<db, auth>>

\* addTransaction up to the await of the insert
AddTransactionCall(transactionData, now) ==
    /\ IF store.user = Null
       THEN /\ ev' = Event("addTransaction", "call", Idle, {}, "false", NoTask)
            /\ UNCHANGED <<store, tasks>>
       ELSE /\ InsertsAsked < MaxInserts
            /\ WriteCall("addTransaction",
                         InsertReq(InsertFields(transactionData, store.user, now)))
    /\ Called
    /\ UNCHANGED <<db, auth>>

\* updateTransaction up to the await of the update
UpdateTransactionCall(id, changes) ==
    /\ WriteCall("updateTransaction", UpdateReq(id, changes))
    /\ Called
    /\ UNCHANGED <<db, auth>>

\* deleteTransaction up to the await of the delete
DeleteTransactionCall(id) ==
    /\ WriteCall("deleteTransaction", DeleteReq(id))
    /\ Called
    /\ UNCHANGED <<db, auth>>

\* the answer a write gets: none when the service applied it, an error when
\* it did not
WriteAnswer(wait) == IF wait.st = "ok" THEN wait ELSE Err(wait.req)

FailedWriteClearingRows(S) ==
    [S EXCEPT !.transactions = <<>>, !.isLoading = FALSE]

FailedWriteLeavingFlag(S) == S

\* the catch and finally blocks of a mutation
FailedWrite(S) == [S EXCEPT !.isLoading = FALSE]

\* a transaction mutation from the answer of its remote write on
WriteResume(op) ==
    \E t \in Running :
        /\ t.op = op
        /\ Pending(t.call)
        /\ LET answer == WriteAnswer(t.call)
           IN IF answer.st = "ok"
              THEN AwaitBoth(Drop(t), op, store, "write", answer)
              ELSE /\ store' = FailedWrite(store)
                   /\ tasks' = Drop(t)
                   /\ ev' = Event(op, "write", answer, {}, "false",
                                  [t EXCEPT !.call = Idle])
        /\ UNCHANGED <<db, auth, calls>>

AddTransactionResume == WriteResume("addTransaction")
UpdateTransactionResume == WriteResume("updateTransaction")
DeleteTransactionResume == WriteResume("deleteTransaction")

----------------------------------------------------------------------------
(* Account mutations.  AppState declares addAccount, updateAccount and     *)
(* deleteAccount and the account form calls them, but the object the store *)
(* is created from has no such members: the call of one is the call of     *)
(* undefined, which raises a TypeError before anything else happens.       *)

\* the members of the object passed to create()
StoreMembers ==
    {"session", "user", "isSessionLoading", "accounts", "transactions", "isLoading",
     "overallNetCash", "weightOnHand", "dollarPerGramRatio",
     "setSession", "checkSession", "signOut", "fetchAccounts", "fetchTransactions",
     "addTransaction", "updateTransaction", "deleteTransaction",
     "recalculateSummaries"}

AccountMutations == {"addAccount", "updateAccount", "deleteAccount"}

\* the call of a member the store does not have
AccountMutationCall(op) ==
    /\ op \notin StoreMembers
    /\ ev' = Event(op, "call", Idle, {}, "TypeError", NoTask)
    /\ Called
    /\ UNCHANGED <<store, tasks, db, auth>>

AddAccountCall == AccountMutationCall("addAccount")
UpdateAccountCall == AccountMutationCall("updateAccount")
DeleteAccountCall == AccountMutationCall("deleteAccount")

----------------------------------------------------------------------------
(* The remote service at work.  A call fails or succeeds; a write that     *)
(* succeeds is applied to the table at some moment before its answer       *)
(* arrives, and a select reads the table at some moment before its answer  *)
(* arrives.  Reading early differs from reading on arrival only when a     *)
(* write is applied in between, so the model lets a select read early only *)
(* while a write is on its way.                                            *)

RemoteEvent(req) == Event("remote", req.call, Idle, {}, "pending", NoTask)

Writes == {"insert", "update", "delete"}

WriteOnItsWay(table) ==
    /\ table = "transactions"
    /\ \E t \in Running : t.call.st = "sent" /\ t.call.req.call \in Writes

\* the service reads the rows a select asks for
RemoteSelect ==
    \E t \in Running, which \in {"fa", "ft"} :
        /\ t[which].st = "sent"
        /\ WriteOnItsWay(t[which].req.table)
        /\ tasks' = Swap(t, [t EXCEPT ![which] = SelectAnswer(t[which], TRUE)])
        /\ ev' = RemoteEvent(t[which].req)
        /\ UNCHANGED <<store, db, auth, calls>>

\* the service applies an insert, update or delete to the transactions table
RemoteWrite ==
    \E t \in Running, serverNow \in Instants :
        /\ t.call.st = "sent"
        /\ t.call.req.call \in Writes
        /\ LET req == t.call.req
           IN /\ tasks' = Swap(t, [t EXCEPT !.call = Ok(req, Null)])
              /\ db' = CASE req.call = "insert" -> InsertRow(db, req.fields, serverNow)
                         [] req.call = "update" -> UpdateRow(db, req.id, req.changes)
                         [] req.call = "delete" -> DeleteRow(db, req.id)
              /\ ev' = RemoteEvent(req)
        /\ UNCHANGED <<store, auth, calls>>

----------------------------------------------------------------------------
(* The store and the remote service together *)

FirstCheckSession == Task("checkSession", Sent(GetSessionReq), Idle, Idle)

\* the module as loaded: the store is created, the listener is registered and
\* the module's own checkSession() has run up to its await
Init ==
    /\ store = InitialState
    /\ tasks = SetToBag({FirstCheckSession})
    /\ db = InitialDb
    /\ auth \in {Null} \cup Sessions
    /\ ev = Event("checkSession", "call", Idle, {GetSessionReq}, "pending",
                  FirstCheckSession)
    /\ calls = 0

Next ==
    \/ CheckSessionCall
    \/ CheckSessionResume
    \/ SignOutCall
    \/ SignOutResume
    \/ \E event \in {"SIGNED_IN", "SIGNED_OUT", "TOKEN_REFRESHED"},
          session \in {Null} \cup Sessions : OnAuthStateChange(event, session)
    \/ \E session \in {Null} \cup Sessions : SetSessionCall(session)
    \/ RecalculateSummariesCall
    \/ FetchAccountsCall
    \/ FetchTransactionsCall
    \/ FetchAccountsResume
    \/ FetchTransactionsResume
    \/ \E d \in TransactionInputs, now \in Instants : AddTransactionCall(d, now)
    \/ \E id \in TransactionIds, changes \in TransactionChanges :
          UpdateTransactionCall(id, changes)
    \/ \E id \in TransactionIds : DeleteTransactionCall(id)
    \/ AddTransactionResume
    \/ UpdateTransactionResume
    \/ DeleteTransactionResume
    \/ AddAccountCall
    \/ UpdateAccountCall
    \/ DeleteAccountCall
    \/ RemoteSelect
    \/ RemoteWrite

Spec == Init /\ [][Next]_vars

\* every remote call responds: the answer of a call an action awaits arrives,
\* and the event loop then resumes the action
Responds ==
    /\ WF_vars(CheckSessionResume)
    /\ WF_vars(SignOutResume)
    /\ WF_vars(FetchAccountsResume)
    /\ WF_vars(FetchTransactionsResume)
    /\ WF_vars(AddTransactionResume)
    /\ WF_vars(UpdateTransactionResume)
    /\ WF_vars(DeleteTransactionResume)

SpecResponding == Spec /\ Responds

\* the store when no remote call answers with an error
NextSucceeding == Next /\ ev'.resp.st # "err"

SpecSucceeding == Init /\ [][NextSucceeding]_vars

----------------------------------------------------------------------------
(* recalculateSummaries on its own: the collections within the bounds, of  *)
(* rows whose numbers are integers and decimals of either sign.  The       *)
(* function reads accounts for one summary and transactions for the other  *)
(* two, so one of the two collections is kept to one element at most.      *)

CalcBalances == {N(-25), Decimal(1, 1), Decimal(2, 1), Decimal(3, 1)}
CalcTypes == {"Sale", "Purchase"}
CalcAmounts == {N(1), N(2)}
CalcWeights == {N(0), Decimal(-1, 1), Decimal(-2, 1), Decimal(3, 1)}

CalcAccounts ==
    { mapAccount(AccountRow("a1", "u1", "Bank", "Bank", b, "1970-01-01T00:00:01.000Z")) :
        b \in CalcBalances }

CalcTransactions ==
    { mapTransaction(TransactionRow(1, "u1", "a1", ty, am, w, Null, Null,
                                    "1970-01-01T00:00:01.000Z", Null)) :
        ty \in CalcTypes, am \in CalcAmounts, w \in CalcWeights }

CalcCollections ==
    (SeqsUpTo(CalcAccounts, MaxCalcAccounts) \X SeqsUpTo(CalcTransactions, 1))
    \cup (SeqsUpTo(CalcAccounts, 1) \X SeqsUpTo(CalcTransactions, MaxCalcTxs))

InitSummaries ==
    /\ store \in { [InitialState EXCEPT !.accounts = c[1], !.transactions = c[2]] :
                     c \in CalcCollections }
    /\ tasks = EmptyBag
    /\ db = InitialDb
    /\ auth = Null
    /\ ev = NoEvent
    /\ calls = 0

NextSummaries == RecalculateSummariesCall

SpecSummaries == InitSummaries /\ [][NextSummaries]_vars

----------------------------------------------------------------------------
(* The transaction form of the App component: what it holds when it is     *)
(* submitted, and what handleSubmitTransaction hands to the store.         *)

TransactionTypes == {"Purchase", "Sale", "Expense", "Transfer", "Adjustment"}

\* parseFloat: the number its longest numeric prefix spells, NaN without one
ParseFloat ==
    "0" :> N(0) @@ "-5" :> N(-5) @@ "7" :> N(7) @@ "0.1" :> Decimal(1, 1) @@
    "12abc" :> N(12) @@ "abc" :> NaN

\* what the amount and weight inputs may hold
NumberInputs == {"", "0", "-5", "7", "0.1", "12abc", "abc"}

\* parseFloat(input || "0")
ParseInput(input) == ParseFloat[IF input = "" THEN "0" ELSE input]

\* the state of the form
FormInputs ==
    [formType : TransactionTypes,
     amountInput : NumberInputs,
     weightInput : NumberInputs,
     notesInput : {"", "memo"},
     selectedAccountId : {"", "a1"},
     selectedCategory : {"Personal"},
     isEditingTransaction : {Null, Some(1)}]

\* the checks that end the handler with an alert
FormRejected(f) ==
    LET amount == ParseInput(f.amountInput)
        weight == ParseInput(f.weightInput)
    IN \/ f.selectedAccountId = ""
       \/ IsNaN(amount)
       \/ f.formType # "Expense" /\ IsNaN(weight)
       \/ amount = N(0) /\ weight = N(0) /\ f.formType # "Expense"
       \/ f.formType = "Expense" /\ amount = N(0)

TransactionDataAmountAsEntered(f) ==
    LET amount == ParseInput(f.amountInput)
        weight == ParseInput(f.weightInput)
    IN [type |-> f.formType,
        amount |-> IF f.formType \in {"Purchase", "Expense"} THEN Negate(amount) ELSE amount,
        weightChange |-> CASE f.formType = "Purchase" -> MathAbs(weight)
                           [] f.formType = "Sale" -> Negate(MathAbs(weight))
                           [] OTHER -> N(0),
        notes |-> IF f.notesInput = "" THEN Undefined ELSE Some(f.notesInput),
        account_id |-> f.selectedAccountId,
        category |-> Some(f.selectedCategory)]

\* const transactionData = { ... }
TransactionData(f) ==
    LET amount == ParseInput(f.amountInput)
        weight == ParseInput(f.weightInput)
    IN [type |-> f.formType,
        amount |-> IF f.formType \in {"Purchase", "Expense"}
                   THEN Negate(MathAbs(amount)) ELSE MathAbs(amount),
        weightChange |-> CASE f.formType = "Purchase" -> MathAbs(weight)
                           [] f.formType = "Sale" -> Negate(MathAbs(weight))
                           [] OTHER -> N(0),
        notes |-> IF f.notesInput = "" THEN Undefined ELSE Some(f.notesInput),
        account_id |-> f.selectedAccountId,
        category |-> Some(f.selectedCategory)]

\* the object as addTransaction reads it: a property it does not have reads
\* as undefined
AsTransactionInsert(data) ==
    data @@ [related_transaction_id |-> Undefined, timestamp |-> Undefined]

\* the form as it stands before it is submitted
FormEvent(f) ==
    [op |-> "transactionForm", step |-> "input", form |-> f, resp |-> Idle,
     issued |-> {}, result |-> "pending", task |-> NoTask]

\* handleSubmitTransaction up to the await of the store action
HandleSubmitTransaction ==
    /\ ev.op = "transactionForm"
    /\ LET f == ev.form
       IN IF FormRejected(f)
          THEN /\ ev' = Event("handleSubmitTransaction", "alert", Idle, {},
                              "undefined", NoTask)
               /\ UNCHANGED <<store, tasks, db, auth, calls>>
          ELSE IF f.isEditingTransaction # Null
          THEN UpdateTransactionCall(f.isEditingTransaction.v, TransactionData(f))
          ELSE \E now \in Instants :
                  AddTransactionCall(AsTransactionInsert(TransactionData(f)), now)

\* the App component is rendered for a signed-in user
InitForm ==
    /\ store = [InitialState EXCEPT !.session = Session("u1"), !.user = User("u1"),
                                    !.isSessionLoading = FALSE]
    /\ tasks = EmptyBag
    /\ db = InitialDb
    /\ auth = Session("u1")
    /\ ev \in {FormEvent(f) : f \in FormInputs}
    /\ calls = 0

NextForm == HandleSubmitTransaction

SpecForm == InitForm /\ [][NextForm]_vars

----------------------------------------------------------------------------
(* The section-3 formulas, stated over the collections as sets of positions *)

\* the sum, as a real number, of the finite numbers terms[i] over the
\* positions i of I
RECURSIVE RealSum(_, _)
RealSum(terms, I) ==
    IF I = {} THEN Real(FALSE, <<>>, 0)
    ELSE LET i == CHOOSE j \in I : TRUE
         IN RealPlus(RealOf(terms[i]), RealSum(terms, I \ {i}))

\* the number nearest to that sum: what a sum of numbers is when it is taken
\* exactly and then held as a number
SumOver(terms, I) == Round(RealSum(terms, I))

SalePositions(txs) == {i \in DOMAIN txs : txs[i].type = "Sale"}
TotalBalance(accounts) ==
    SumOver([i \in DOMAIN accounts |-> accounts[i].current_balance], DOMAIN accounts)
TotalWeight(txs) == SumOver([i \in DOMAIN txs |-> txs[i].weightChange], DOMAIN txs)
SaleAmount(txs) == RealSum([i \in DOMAIN txs |-> txs[i].amount], SalePositions(txs))
SaleWeight(txs) ==
    RealSum([i \in DOMAIN txs |-> MathAbs(txs[i].weightChange)], SalePositions(txs))

\* ratio is the no-data sentinel exactly when the Sale weight is zero, and
\* otherwise the number nearest to SaleAmount / SaleWeight, the two sums taken
\* exactly or each held as a number
RatioIs(ratio, txs) ==
    /\ ratio = Null <=> SaleWeight(txs).mant = <<>>
    /\ ratio # Null =>
          ratio.v \in { Divide(Canonical(SaleAmount(txs)), Canonical(SaleWeight(txs))),
                        Divide(Round(SaleAmount(txs)), Round(SaleWeight(txs))) }

Recalculated == ev.op = "recalculateSummaries"

----------------------------------------------------------------------------
(* Steps, as the event of a step shows them *)

WriteFailed(e) == e.op \in Mutations /\ e.step = "write" /\ e.resp.st = "err"
WriteSucceeded(e) == e.op \in Mutations /\ e.step = "write" /\ e.resp.st = "ok"
FetchFailed(e, name) == e.step = name /\ e.resp.st = "err"
FetchLoaded(e, name) == e.step = name /\ e.resp.st = "ok"
FetchCalled(e) == e.op \in {"fetchAccounts", "fetchTransactions"} /\ e.step = "call"
JointEnd(e) ==
    e.step \in {"fetchAccounts", "fetchTransactions"} /\ e.result # "pending"
OneFetchFailed(t) == {t.fa, t.ft} = {Settled(TRUE), Settled(FALSE)}
TablesAsked(e) == {r.table : r \in {q \in e.issued : q.call = "select"}}

Data(S) ==
    <<S.accounts, S.transactions, S.overallNetCash, S.weightOnHand, S.dollarPerGramRatio>>

----------------------------------------------------------------------------
(* Claims *)

\* C1: in every state the three summaries are the section-3 formulas of the
\* accounts and transactions held in memory.
C1_SummariesMatchMemory ==
    /\ store.overallNetCash = TotalBalance(store.accounts)
    /\ store.weightOnHand = TotalWeight(store.transactions)
    /\ RatioIs(store.dollarPerGramRatio, store.transactions)

\* C2: after recalculateSummaries the ratio is null exactly when the sum of
\* |weightChange| over the Sale transactions is zero, and otherwise it is the
\* sum of the Sale amounts divided by that sum.
C2_RatioNullIffNoSaleWeight ==
    Recalculated => RatioIs(store.dollarPerGramRatio, store.transactions)

\* C3: after recalculateSummaries overallNetCash is the exact sum of
\* current_balance over the accounts in memory, whatever their order and sign.
C3_NetCashIsSumOfBalances ==
    Recalculated => store.overallNetCash = TotalBalance(store.accounts)

\* C4: after recalculateSummaries weightOnHand is the exact sum of weightChange
\* over all transactions in memory, of every type and sign.
C4_WeightIsSumOfChanges ==
    Recalculated => store.weightOnHand = TotalWeight(store.transactions)

\* C5: a mutation whose remote write fails returns false, issues no fetch and
\* leaves accounts, transactions and the three summaries as they were; so
\* does its call, which only raises isLoading.
C5_FailedWriteLeavesData ==
    [][ /\ WriteFailed(ev') =>
              /\ ev'.result = "false"
              /\ ev'.issued = {}
              /\ JointlyDone(ev'.task)
              /\ Data(store') = Data(store)
        /\ (ev'.op \in Mutations /\ ev'.step = "call") => Data(store') = Data(store)
      ]_vars

C5_Witness ==
    /\ WriteFailed(ev)
    /\ ev.op = "addTransaction"
    /\ Len(store.transactions) = 2
    /\ Len(store.accounts) = 2
    /\ Quiescent

\* C6 as stated: a mutation whose remote write succeeded requests both the
\* accounts and the transactions collection.
C6_WriteThenBothRequested ==
    WriteSucceeded(ev) => TablesAsked(ev) = {"accounts", "transactions"}

\* C6 as amended: a mutation whose remote write succeeded calls both fetches;
\* with a user in the store both request their collection for that user and
\* the mutation stays pending, with no user neither requests anything and the
\* mutation returns true at once; a mutation that returns true awaits nothing.
C6_WriteThenBothFetchesCalled ==
    /\ WriteSucceeded(ev) =>
          IF store.user = Null
          THEN ev.issued = {} /\ ev.result = "true"
          ELSE /\ ev.issued = {SelectReq("accounts", store.user.id),
                               SelectReq("transactions", store.user.id)}
               /\ Pending(ev.task.fa) /\ Pending(ev.task.ft)
               /\ ev.result = "pending"
    /\ (ev.op \in Mutations /\ ev.result = "true") =>
          ~Pending(ev.task.call) /\ ~Pending(ev.task.fa) /\ ~Pending(ev.task.ft)

C6_Witness ==
    /\ ev.op = "addTransaction"
    /\ ev.result = "true"
    /\ ev.task.fa = Settled(TRUE)
    /\ ev.task.ft = Settled(TRUE)

\* C7 as stated: when exactly one of the two jointly awaited fetches failed,
\* the transaction mutation returns false.
C7_OneFailedFetchFailsMutation ==
    (JointEnd(ev) /\ ev.op \in Mutations /\ OneFetchFailed(ev.task)) => ev.result = "false"

\* C7 as amended: when exactly one of the two jointly awaited fetches failed,
\* the joint operation still ends normally (a mutation returns true,
\* checkSession resolves), and the failing fetch leaves the other collection
\* as it is in memory.
C7_OneFailedFetchIsNotAFailure ==
    [][ /\ (JointEnd(ev') /\ OneFetchFailed(ev'.task)) =>
              ev'.result = IF ev'.op \in Mutations THEN "true" ELSE "undefined"
        /\ (FetchFailed(ev', "fetchAccounts") /\ ev'.task.ft # Idle) =>
              store'.transactions = store.transactions
        /\ (FetchFailed(ev', "fetchTransactions") /\ ev'.task.fa # Idle) =>
              store'.accounts = store.accounts
      ]_vars

C7_Witness ==
    /\ JointEnd(ev)
    /\ ev.op \in Mutations
    /\ ev.task.fa = Settled(TRUE) /\ ev.task.ft = Settled(FALSE)
    /\ ev.result = "true"
    /\ Len(store.accounts) = 2
    /\ store.transactions = <<>>

\* C8: a fetch whose select fails empties its own collection, leaves the
\* other one untouched and ends with isLoading false.
C8_FailedFetchEmptiesOwnCollection ==
    [][ /\ FetchFailed(ev', "fetchAccounts") =>
              /\ store'.accounts = <<>>
              /\ store'.transactions = store.transactions
              /\ store'.isLoading = FALSE
        /\ FetchFailed(ev', "fetchTransactions") =>
              /\ store'.transactions = <<>>
              /\ store'.accounts = store.accounts
              /\ store'.isLoading = FALSE
      ]_vars

C8_Witness ==
    /\ FetchFailed(ev, "fetchAccounts")
    /\ store.accounts = <<>>
    /\ store.overallNetCash = N(75)
    /\ Len(store.transactions) = 2

\* the local model of a wire row, field by field
AccountOfRow(acc, row) ==
    /\ acc.id = row.id /\ acc.user_id = row.user_id /\ acc.name = row.name
    /\ acc.type = row.type /\ acc.current_balance = row.current_balance
    /\ acc.created_at = IsoInstant[row.created_at]

TransactionOfRow(tx, row) ==
    /\ tx.id = row.id /\ tx.user_id = row.user_id /\ tx.account_id = row.account_id
    /\ tx.type = row.type /\ tx.amount = row.amount
    /\ tx.weightChange = row.weight_change
    /\ tx.timestamp = IsoInstant[row.timestamp]

\* C9: a fetch whose select succeeds replaces its collection by the mapped
\* rows of the response, in the response's order; a select is sent for the
\* user the store holds when the fetch is called.
C9_LoadedFetchReplacesCollection ==
    [][ /\ FetchLoaded(ev', "fetchAccounts") =>
              /\ Len(store'.accounts) = Len(ev'.resp.data)
              /\ \A i \in DOMAIN ev'.resp.data :
                    AccountOfRow(store'.accounts[i], ev'.resp.data[i])
        /\ FetchLoaded(ev', "fetchTransactions") =>
              /\ Len(store'.transactions) = Len(ev'.resp.data)
              /\ \A i \in DOMAIN ev'.resp.data :
                    TransactionOfRow(store'.transactions[i], ev'.resp.data[i])
        /\ \A r \in ev'.issued : r.call = "select" =>
              store'.user # Null /\ r.uid = store'.user.id
      ]_vars

C9_Witness ==
    /\ FetchLoaded(ev, "fetchAccounts")
    /\ ev.resp.req.uid = "u2"
    /\ Len(store.accounts) = 1 /\ store.accounts[1].id = "a3"
    /\ Len(store.transactions) = 2 /\ store.transactions[1].user_id = "u1"

\* C10: with no user in the store, a call of fetchAccounts or
\* fetchTransactions sends nothing and changes no field of the state.
C10_FetchWithoutUserIsNoOp ==
    [][ (FetchCalled(ev') /\ store.user = Null) =>
            /\ store' = store
            /\ ev'.issued = {}
            /\ tasks' = tasks
            /\ db' = db
      ]_vars

C10_Witness ==
    /\ FetchCalled(ev)
    /\ store.user = Null
    /\ ev.result = "undefined"
    /\ store.isSessionLoading

\* C11: with no user in the store, a call of addTransaction sends nothing,
\* changes no field of the state (isLoading included) and returns false.
C11_AddWithoutUserIsRefused ==
    [][ (ev'.op = "addTransaction" /\ ev'.step = "call" /\ store.user = Null) =>
            /\ store' = store
            /\ ev'.issued = {}
            /\ ev'.result = "false"
            /\ tasks' = tasks
            /\ db' = db
      ]_vars

C11_Witness ==
    /\ ev.op = "addTransaction" /\ ev.step = "call"
    /\ store.user = Null
    /\ ev.result = "false"
    /\ ~store.isLoading
    /\ Quiescent

\* the fields signOut is about
Signed(S) == <<S.session, S.user, S.accounts, S.transactions>>

\* C12: signOut resolves without raising; when the auth service reports
\* success it leaves session and user null and both collections empty, and
\* when the auth service reports failure it leaves the four as they were.
C12_SignOutClearsOnSuccessOnly ==
    [][ (ev'.op = "signOut" /\ ev'.step = "signOut") =>
            /\ ev'.result = "undefined"
            /\ ev'.issued = {}
            /\ IF ev'.resp.st = "ok"
               THEN Signed(store') = <<Null, Null, <<>>, <<>> >>
               ELSE Signed(store') = Signed(store)
      ]_vars

C12_Witness ==
    /\ ev.op = "signOut" /\ ev.step = "signOut"
    /\ ev.resp.st = "err"
    /\ store.session = Session("u1") /\ store.user = User("u1")
    /\ Len(store.accounts) = 2
    /\ Len(store.transactions) = 2

\* checkSession has its answer from getSession: no error and no session
NoSessionFound(e) ==
    e.op = "checkSession" /\ e.step = "getSession" /\ e.resp.st = "ok" /\ e.resp.data = Null

\* C13: when getSession answers without error and without a session,
\* checkSession empties both collections and finishes in that step, with
\* isSessionLoading false, and with isLoading false when nothing else runs.
C13_NoUserEmptiesCollections ==
    [][ NoSessionFound(ev') =>
            /\ store'.accounts = <<>>
            /\ store'.transactions = <<>>
            /\ store'.session = Null /\ store'.user = Null
            /\ ev'.result = "undefined"
            /\ ev'.issued = {}
            /\ ~store'.isSessionLoading
            /\ (tasks' = EmptyBag => ~store'.isLoading)
      ]_vars

C13_Witness ==
    /\ NoSessionFound(ev)
    /\ store.accounts = <<>> /\ store.transactions = <<>>
    /\ ~store.isSessionLoading
    /\ ~store.isLoading
    /\ Quiescent

\* C14: when getSession answers with an error, checkSession finishes without
\* raising and without a fetch, with isSessionLoading false and with session
\* null, whatever session the store held before.
C14_FailedCheckLeavesSessionNull ==
    (ev.op = "checkSession" /\ ev.step = "getSession" /\ ev.resp.st = "err") =>
        /\ store.session = Null
        /\ ev.result = "undefined"
        /\ ev.issued = {}
        /\ ~store.isSessionLoading

\* C15: a call of addAccount, updateAccount or deleteAccount sends one remote
\* mutation and settles to true or false (or is waiting to).
C15_AccountMutationWritesRemote ==
    (ev.op \in AccountMutations /\ ev.step = "call") =>
        /\ ev.issued # {}
        /\ ev.result \in {"pending", "true", "false"}

\* the store actions that exist
StoreActions ==
    {"setSession", "checkSession", "signOut", "fetchAccounts", "fetchTransactions",
     "recalculateSummaries"} \cup Mutations

\* an action's promise after a step of it: fulfilled with a boolean by a
\* mutation and with nothing by the others, never rejected, and unsettled
\* only while a remote call of the action is outstanding
SettlesWithoutRaising(e) ==
    /\ e.result \in (IF e.op \in Mutations THEN {"pending", "true", "false"}
                                           ELSE {"pending", "undefined"})
    /\ e.result = "pending" =>
          /\ e.task \in Running
          /\ Pending(e.task.call) \/ Pending(e.task.fa) \/ Pending(e.task.ft)
    /\ e.result # "pending" => JointlyDone(e.task) /\ ~Pending(e.task.call)

\* C16: whatever the remote calls answer, no step of a store action raises,
\* a mutation that has finished has a boolean result, and when every remote
\* call responds every action that was started finishes.
C16_ActionsFinishWithoutRaising ==
    /\ [](ev.op \in StoreActions => SettlesWithoutRaising(ev))
    /\ [](\A t \in Running : Pending(t.call) \/ Pending(t.fa) \/ Pending(t.ft))
    /\ <>[]Quiescent

C16_Witness ==
    /\ ev.op = "deleteTransaction"
    /\ ev.step = "fetchAccounts" /\ ev.resp.st = "err"
    /\ ev.task.ft = Settled(FALSE)
    /\ ev.result = "true"
    /\ Quiescent

AccountsByName(accounts) ==
    \A i, j \in DOMAIN accounts :
        i < j => NameRank(accounts[i].name) <= NameRank(accounts[j].name)

TransactionsLatestFirst(txs) ==
    \A i, j \in DOMAIN txs : i < j => txs[i].timestamp >= txs[j].timestamp

\* C17: in every state the accounts in memory are in ascending order of name
\* and the transactions in memory in descending order of timestamp.
C17_CollectionsOrdered ==
    /\ AccountsByName(store.accounts)
    /\ TransactionsLatestFirst(store.transactions)

C17_Witness ==
    /\ Len(store.accounts) = 2
    /\ store.accounts[1].name = "Bank" /\ store.accounts[2].name = "Cash"
    /\ Len(store.transactions) = 3
    /\ store.transactions[1].timestamp = 3000
    /\ store.transactions[3].timestamp = 1000

\* null becomes absent, every other wire value is carried as it is
AbsentIfNull(x) == IF x = Null THEN Undefined ELSE x

\* C18: every transaction a fetch has loaded has notes, category and
\* related_transaction_id absent exactly when the wire value is null and
\* equal to the wire value otherwise, and the other fields carried over.
C18_AbsentExactlyWhenNull ==
    FetchLoaded(ev, "fetchTransactions") =>
        \A i \in DOMAIN ev.resp.data :
            LET row == ev.resp.data[i]
                tx == store.transactions[i]
            IN /\ tx.notes = AbsentIfNull(row.notes)
               /\ tx.category = AbsentIfNull(row.category)
               /\ tx.related_transaction_id = AbsentIfNull(row.related_transaction_id)
               /\ tx.id = row.id /\ tx.type = row.type /\ tx.amount = row.amount
               /\ tx.account_id = row.account_id /\ tx.user_id = row.user_id
               /\ tx.weightChange = row.weight_change

FetchEnded(e) == e.step \in {"fetchAccounts", "fetchTransactions"}

StillFetching == \E t \in Running : Pending(t.fa) \/ Pending(t.ft)

\* C19: a fetch that ends leaves isLoading false, whether or not another
\* fetch is still waiting for its answer.
C19_FirstFetchClearsLoading ==
    [][ FetchEnded(ev') => ~store'.isLoading ]_vars

C19_Witness ==
    /\ ev.op = "fetchAccounts" /\ FetchEnded(ev)
    /\ ~store.isLoading
    /\ StillFetching

Ids(rows) == [i \in DOMAIN rows |-> rows[i].id]

\* C20: a fetch whose answer is processed puts the rows of that answer in
\* memory, whatever was loaded before and whichever request was sent first,
\* and every other action that is waiting stays waiting for what it awaited.
C20_LastProcessedResponseWins ==
    [][ /\ FetchLoaded(ev', "fetchAccounts") => Ids(store'.accounts) = Ids(ev'.resp.data)
        /\ FetchLoaded(ev', "fetchTransactions") =>
              Ids(store'.transactions) = Ids(ev'.resp.data)
        /\ FetchEnded(ev') =>
              \E t \in Running :
                  tasks' \in {Drop(t), Drop(t) (+) SetToBag({ev'.task})}
      ]_vars

\* the answer of the older request arrives after the answer of the newer one
C20_Witness ==
    /\ ev.op = "checkSession" /\ FetchLoaded(ev, "fetchTransactions")
    /\ Quiescent
    /\ db.nextId = InitialDb.nextId + 1
    /\ Len(SelectRows(db, "transactions", "u1")) = 3
    /\ store.user = User("u1")
    /\ Ids(store.transactions) = <<2, 1>>

\* a step that sends the select of accounts and the select of transactions
StartsBothFetches(e) == TablesAsked(e) = {"accounts", "transactions"}

\* C21 as stated: the two fetches are started together only by checkSession
\* and by a transaction mutation.
C21_OnlyCheckSessionAndMutationsFetchBoth ==
    StartsBothFetches(ev) => ev.op \in {"checkSession"} \cup Mutations

\* C21 as amended: the two fetches are started together only by checkSession
\* on a session with a user, by a transaction mutation on the success of its
\* remote write, and by the auth listener on SIGNED_IN, which does not wait for
\* them; a step that sends one select alone is a call of that fetch alone.
C21_WhoStartsBothFetches ==
    /\ StartsBothFetches(ev) =>
          \/ ev.op = "checkSession" /\ ev.step = "getSession" /\ ev.resp.st = "ok"
          \/ ev.op \in Mutations /\ ev.step = "write" /\ ev.resp.st = "ok"
          \/ ev.op = "onAuthStateChange" /\ ev.step = "SIGNED_IN"
    /\ Cardinality(TablesAsked(ev)) = 1 =>
          ev.op \in {"fetchAccounts", "fetchTransactions"} /\ ev.step = "call"

C21_Witness ==
    /\ ev.op = "onAuthStateChange" /\ ev.step = "SIGNED_IN"
    /\ StartsBothFetches(ev)
    /\ store.user = User("u2")
    /\ store.isLoading

\* the row the claim prescribes for data d, user id uid and clock reading now
StampedRow(d, uid, now) ==
    [k \in DOMAIN d \cup {"user_id"} |->
        CASE k = "user_id" -> uid
          [] k = "timestamp" -> IF d.timestamp \in {Undefined, Some("")}
                                THEN ToISOString(now)
                                ELSE d.timestamp.v
          [] OTHER -> d[k]]

\* C22: the insert addTransaction sends carries the id of the user the store
\* held when the action was called, the caller's timestamp when that is a
\* non-empty string and the current instant otherwise, and every other
\* field of the caller's data as it was handed in.
C22_InsertCarriesUserAndTimestamp ==
    [][ (ev'.op = "addTransaction" /\ ev'.step = "call" /\ ev'.issued # {}) =>
            \E d \in TransactionInputs, now \in Instants :
                ev'.issued = {[call |-> "insert",
                               fields |-> StampedRow(d, store.user.id, now)]}
      ]_vars

C22_Witness ==
    /\ ev.op = "addTransaction" /\ ev.step = "call"
    /\ \E r \in ev.issued :
          /\ r.fields.timestamp = "1970-01-01T00:00:01.000Z"
          /\ r.fields.user_id = "u2"
          /\ r.fields.type = "Purchase" /\ r.fields.amount = N(-10)
          /\ r.fields.weightChange = N(2)

\* the transaction a request carries to the remote service
Carried(r) == IF r.call = "insert" THEN r.fields ELSE r.changes

\* x <= 0 and x >= 0 on numbers
AtMostZero(x) == ~IsNaN(x) /\ SignOf(x) <= 0
AtLeastZero(x) == ~IsNaN(x) /\ SignOf(x) >= 0

\* the signs the type of a transaction prescribes
SignsOfType(tx) ==
    /\ IF tx.type \in {"Purchase", "Expense"}
       THEN AtMostZero(tx.amount) ELSE AtLeastZero(tx.amount)
    /\ CASE tx.type = "Purchase" -> AtLeastZero(tx.weightChange)
         [] tx.type = "Sale" -> AtMostZero(tx.weightChange)
         [] OTHER -> tx.weightChange = N(0)

\* C23: every transaction the form hands to addTransaction or
\* updateTransaction has the signs of its type, whatever was typed.
C23_FormNormalisesSigns ==
    \A r \in ev.issued : r.call \in {"insert", "update"} => SignsOfType(Carried(r))

C23_Witness ==
    /\ ev.op = "updateTransaction"
    /\ \E r \in ev.issued :
          /\ r.changes.type = "Purchase"
          /\ r.changes.amount = N(-12)
          /\ r.changes.weightChange = N(5)

UpdateOrDelete == {"updateTransaction", "deleteTransaction"}

\* C24: with no user in the store, a call of updateTransaction or
\* deleteTransaction still sends its remote write, and when that write
\* succeeds the action returns true at once, sends no select and leaves the
\* accounts and transactions in memory as they were.
C24_UpdateAndDeleteNeedNoUser ==
    [][ /\ (ev'.op \in UpdateOrDelete /\ ev'.step = "call" /\ store.user = Null) =>
              /\ Cardinality(ev'.issued) = 1
              /\ \A r \in ev'.issued : r.call \in {"update", "delete"}
              /\ ev'.result = "pending"
        /\ (ev'.op \in UpdateOrDelete /\ WriteSucceeded(ev') /\ store.user = Null) =>
              /\ ev'.result = "true"
              /\ ev'.issued = {}
              /\ store'.accounts = store.accounts
              /\ store'.transactions = store.transactions
      ]_vars

C24_Witness ==
    /\ ev.op = "deleteTransaction" /\ WriteSucceeded(ev)
    /\ store.user = Null
    /\ ev.result = "true"
    /\ Len(db.transactions) = Len(InitialTransactions) - 1
    /\ Quiescent


OwnedBy(rows, user) ==
    IF user = Null
    THEN rows = <<>>
    ELSE \A i \in DOMAIN rows : rows[i].user_id = user.id

\* C25: whenever no store action is in flight, every account and every
\* transaction in memory carries the id of the current user, and both
\* collections are empty when there is no user.
C25_RowsBelongToCurrentUser ==
    Quiescent =>
        /\ OwnedBy(store.accounts, store.user)
        /\ OwnedBy(store.transactions, store.user)


RemoteAccounts(uid) ==
    LET rows == SelectRows(db, "accounts", uid)
    IN [i \in DOMAIN rows |-> mapAccount(rows[i])]

RemoteTransactions(uid) ==
    LET rows == SelectRows(db, "transactions", uid)
    IN [i \in DOMAIN rows |-> mapTransaction(rows[i])]

\* C26: when every remote call succeeds, then whenever no store action is in
\* flight and a user is signed in, the accounts and transactions in memory
\* are the mapped rows the remote service holds for that user.
C26_MemoryEqualsRemote ==
    (Quiescent /\ store.user # Null) =>
        /\ store.accounts = RemoteAccounts(store.user.id)
        /\ store.transactions = RemoteTransactions(store.user.id)


AgreesWith(tx, d) ==
    /\ tx.type = d.type
    /\ tx.amount = d.amount
    /\ tx.weightChange = d.weightChange
    /\ tx.notes = d.notes
    /\ tx.category = d.category
    /\ tx.account_id = d.account_id

\* C27: once addTransaction has written its row and its follow-up
\* fetchTransactions has loaded the answer, the transactions in memory hold
\* one that agrees with the data handed to addTransaction on type, amount,
\* weightChange, notes, category and account_id.
C27_CreatedTransactionReadBack ==
    (ev.op = "addTransaction" /\ FetchLoaded(ev, "fetchTransactions")) =>
        \E d \in TransactionInputs, i \in DOMAIN store.transactions :
            AgreesWith(store.transactions[i], d)


\* C28: in every reachable state the user in the store is the user of the
\* session in the store, and there is no user when there is no session.
C28_UserIsSessionUser ==
    /\ store.user = UserOf(store.session)
    /\ store.session = Null => store.user = Null

C28_Witness ==
    /\ ev.op = "onAuthStateChange"
    /\ store.session = Session("u2")
    /\ store.user = User("u2")
    /\ ev.step = "TOKEN_REFRESHED"


\* C29: whenever no store action is in flight isLoading is false; and, when
\* every remote call responds, every state with isLoading true is followed by
\* a state with isLoading false.
C29_LoadingFlagComesDown ==
    /\ [](Quiescent => ~store.isLoading)
    /\ (store.isLoading ~> ~store.isLoading)

C29_Witness ==
    /\ ev.op = "updateTransaction" /\ WriteFailed(ev)
    /\ ev.result = "false"
    /\ Quiescent
    /\ ~store.isLoading
    /\ store.user # Null


CheckingSession == \E t \in Running : t.op = "checkSession"

\* C30: isSessionLoading is true in every state in which some checkSession
\* is still in flight, overlapping invocations included, and false once
\* every invocation has finished.
C30_SessionLoadingWhileChecking ==
    store.isSessionLoading <=> CheckingSession

====
